---- MODULE Spec2Model ----
(***************************************************************************)
(* A model of reconcileYesterdayAutomation.py: a scheduled job that        *)
(* resolves the last working day, queries a ledger with two SQL queries,   *)
(* aggregates five payment totals, renders them to CSV and emails them.    *)
(* Text values (dates, amounts, payment types) are sequences of            *)
(* one-character strings, so that formatting, parsing, lowercasing and     *)
(* trimming are computed and not assumed.  Money is in whole pence.        *)
(***************************************************************************)
EXTENDS Integers, Sequences, FiniteSets, TLC

(***************************************************************************)
(* Bounds of the model.                                                    *)
(***************************************************************************)
\* number of consecutive calendar days "today" is drawn from
NumDays == 7
\* largest number of rows in the ledger table
MaxLedgerRows == 1
\* longest row list handed directly to calculateTotals
MaxRows == 2
\* most whitespace characters put on either side of a payment type label
MaxPad == 1
\* number of scheduled runs followed in the week-long specification
MaxRuns == 2

\* a NULL column value, and Python's None as returned by os.getenv
NULL == <<"NULL">>
None == "NoneType"

(***************************************************************************)
(* Characters and text.                                                    *)
(***************************************************************************)
Digits == <<"0", "1", "2", "3", "4", "5", "6", "7", "8", "9">>
UpperCase == <<"A", "B", "C", "D", "E", "F", "G", "H", "I", "J", "K", "L", "M",
               "N", "O", "P", "Q", "R", "S", "T", "U", "V", "W", "X", "Y", "Z">>
LowerCase == <<"a", "b", "c", "d", "e", "f", "g", "h", "i", "j", "k", "l", "m",
               "n", "o", "p", "q", "r", "s", "t", "u", "v", "w", "x", "y", "z">>
Whitespace == {" ", "\t"}

IsDigit(c) == \E i \in 1..10 : Digits[i] = c
DigitValue(c) == (CHOOSE i \in 1..10 : Digits[i] = c) - 1
DigitChar(n) == Digits[n + 1]

\* str.lower() on one character
LowerChar(c) ==
    IF \E i \in 1..26 : UpperCase[i] = c
    THEN LowerCase[CHOOSE i \in 1..26 : UpperCase[i] = c]
    ELSE c

\* str.upper() on one character (used to build labels in varied case)
UpperChar(c) ==
    IF \E i \in 1..26 : LowerCase[i] = c
    THEN UpperCase[CHOOSE i \in 1..26 : LowerCase[i] = c]
    ELSE c

\* str.lower()
Lower(s) == [i \in 1..Len(s) |-> LowerChar(s[i])]

\* str.strip(): drop leading and trailing whitespace
RECURSIVE LStrip(_)
LStrip(s) ==
    IF s # <<>> /\ Head(s) \in Whitespace THEN LStrip(Tail(s)) ELSE s

RECURSIVE RStrip(_)
RStrip(s) ==
    IF s # <<>> /\ s[Len(s)] \in Whitespace
    THEN RStrip(SubSeq(s, 1, Len(s) - 1))
    ELSE s

Strip(s) == RStrip(LStrip(s))

\* str.replace(',', ''): drop every comma
RemoveCommas(s) == SelectSeq(s, LAMBDA c : c # ",")

\* code point order of the characters that occur in date text
CharCode(c) == IF c = "/" THEN 47 ELSE 48 + DigitValue(c)

\* textual (character by character) comparison of two texts; '' sorts first
RECURSIVE TextLess(_, _)
TextLess(a, b) ==
    IF b = <<>> THEN FALSE
    ELSE IF a = <<>> THEN TRUE
    ELSE IF Head(a) # Head(b) THEN CharCode(Head(a)) < CharCode(Head(b))
    ELSE TextLess(Tail(a), Tail(b))

TextLeq(a, b) == a = b \/ TextLess(a, b)

(***************************************************************************)
(* Calendar: datetime's proleptic Gregorian ordinals, weekday(),           *)
(* timedelta subtraction and strftime('%Y/%m/%d').                         *)
(***************************************************************************)
DaysInMonth == <<31, 28, 31, 30, 31, 30, 31, 31, 30, 31, 30, 31>>
DaysBeforeMonth == <<0, 31, 59, 90, 120, 151, 181, 212, 243, 273, 304, 334>>

IsLeap(y) == y % 4 = 0 /\ (y % 100 # 0 \/ y % 400 = 0)

DaysBeforeYear(y) ==
    (y - 1) * 365 + (y - 1) \div 4 - (y - 1) \div 100 + (y - 1) \div 400

\* date.toordinal(): 0001-01-01 is day 1
ToOrdinal(dt) ==
    DaysBeforeYear(dt.y) + DaysBeforeMonth[dt.m]
        + (IF dt.m > 2 /\ IsLeap(dt.y) THEN 1 ELSE 0) + dt.d

\* date.fromordinal()
FromOrdinal(ord) ==
    LET n0 == ord - 1
        n400 == n0 \div 146097
        r400 == n0 % 146097
        n100 == r400 \div 36524
        r100 == r400 % 36524
        n4 == r100 \div 1461
        r4 == r100 % 1461
        n1 == r4 \div 365
        n == r4 % 365
        year == n400 * 400 + 1 + n100 * 100 + n4 * 4 + n1
        leap == n1 = 3 /\ (n4 # 24 \/ n100 = 3)
        m0 == (n + 50) \div 32
        p0 == DaysBeforeMonth[m0] + (IF m0 > 2 /\ leap THEN 1 ELSE 0)
        month == IF p0 > n THEN m0 - 1 ELSE m0
        preceding ==
            IF p0 > n
            THEN p0 - (DaysInMonth[month] + (IF month = 2 /\ leap THEN 1 ELSE 0))
            ELSE p0
    IN  IF n1 = 4 \/ n100 = 4
        THEN [y |-> year - 1, m |-> 12, d |-> 31]
        ELSE [y |-> year, m |-> month, d |-> n - preceding + 1]

\* datetime.weekday(): Monday = 0 ... Sunday = 6
Weekday(ord) == (ord + 6) % 7

\* zero-padded decimal text of n, width w
RECURSIVE PadNum(_, _)
PadNum(n, w) ==
    IF w = 0 THEN <<>> ELSE Append(PadNum(n \div 10, w - 1), DigitChar(n % 10))

\* strftime('%Y/%m/%d')
Strftime(ord) ==
    LET dt == FromOrdinal(ord)
    IN  PadNum(dt.y, 4) \o <<"/">> \o PadNum(dt.m, 2) \o <<"/">> \o PadNum(dt.d, 2)

\* the first calendar day "today" is drawn from: Monday 26 February 2024
BaseDate == [y |-> 2024, m |-> 2, d |-> 26]
Days == {ToOrdinal(BaseDate) + k : k \in 0..(NumDays - 1)}

(***************************************************************************)
(* Amount text: SQL FORMAT(gross, 'N2') and Python float().                *)
(***************************************************************************)
RECURSIVE Decimal(_)
Decimal(n) ==
    IF n < 10 THEN <<DigitChar(n)>>
    ELSE Append(Decimal(n \div 10), DigitChar(n % 10))

\* digits of n in groups of three separated by commas
RECURSIVE Grouped(_)
Grouped(n) ==
    IF n < 1000 THEN Decimal(n)
    ELSE Grouped(n \div 1000) \o <<",">> \o PadNum(n % 1000, 3)

\* FORMAT(gross, 'N2') of an amount of p pence
FormatN2(p) ==
    LET a == IF p < 0 THEN -p ELSE p
    IN  (IF p < 0 THEN <<"-">> ELSE <<>>)
            \o Grouped(a \div 100) \o <<".">> \o PadNum(a % 100, 2)

RECURSIVE DigitsValue(_)
DigitsValue(s) ==
    IF s = <<>> THEN 0
    ELSE DigitsValue(SubSeq(s, 1, Len(s) - 1)) * 10 + DigitValue(s[Len(s)])

\* variant: text that is no number counts as zero instead of raising
ParseFloatLenient(text) == [ok |-> TRUE, pence |-> 0]

\* float(text): surrounding whitespace is dropped, then an optional sign,
\* digits and at most one decimal point, with at least one digit.  The
\* result is in pence; text with more than two fraction digits is outside
\* the model.  Anything else raises ValueError.
ParseFloat(text) ==
    LET u == Strip(text)
        signed == u # <<>> /\ u[1] \in {"+", "-"}
        body == IF signed THEN Tail(u) ELSE u
        dots == {i \in 1..Len(body) : body[i] = "."}
        wellFormed ==
            /\ \A i \in 1..Len(body) : IsDigit(body[i]) \/ body[i] = "."
            /\ Cardinality(dots) <= 1
            /\ \E i \in 1..Len(body) : IsDigit(body[i])
        dot == IF dots = {} THEN Len(body) + 1 ELSE CHOOSE i \in dots : TRUE
        whole == SubSeq(body, 1, dot - 1)
        frac == SubSeq(body, dot + 1, Len(body))
        frac2 == IF Len(frac) = 0 THEN <<"0", "0">>
                 ELSE IF Len(frac) = 1 THEN Append(frac, "0")
                 ELSE frac
        magnitude == DigitsValue(whole) * 100 + DigitsValue(frac2)
    IN  IF wellFormed /\ Len(frac) <= 2
        THEN [ok |-> TRUE,
              pence |-> IF signed /\ u[1] = "-" THEN -magnitude ELSE magnitude]
        ELSE [ok |-> FALSE, pence |-> 0]

(***************************************************************************)
(* Payment type classification: the match statement of calculateTotals.    *)
(***************************************************************************)
CreditCard == <<"c", "r", "e", "d", "i", "t", " ", "c", "a", "r", "d">>
DebitCard == <<"d", "e", "b", "i", "t", " ", "c", "a", "r", "d">>
SagePay == <<"s", "a", "g", "e", " ", "p", "a", "y">>
Cash == <<"c", "a", "s", "h">>
Cheque == <<"c", "h", "e", "q", "u", "e">>
BankTransfer == <<"b", "a", "n", "k", " ", "t", "r", "a", "n", "s", "f", "e", "r">>

Categories == <<"Card", "SagePay", "Cash", "Cheque", "BankTransfer">>

\* variant: the label is lowercased but not trimmed
NormalizeTypeNoStrip(label) == Lower(label)

\* type = row[1].lower().strip()
NormalizeType(label) == Strip(Lower(label))

\* the case taken by the match statement for a normalized type
MatchType(type) ==
    IF type = CreditCard \/ type = DebitCard THEN "Card"
    ELSE IF type = SagePay THEN "SagePay"
    ELSE IF type = Cash THEN "Cash"
    ELSE IF type = Cheque THEN "Cheque"
    ELSE IF type = BankTransfer THEN "BankTransfer"
    ELSE "ignored"

\* round(total, 2): a total that is a whole number of pence is unchanged
Round2(p) == p

(***************************************************************************)
(* The ledger table and the two queries of main.                           *)
(***************************************************************************)
TitleCash == <<"C", "a", "s", "h">>
TitleBankTransfer ==
    <<"B", "a", "n", "k", " ", "T", "r", "a", "n", "s", "f", "e", "r">>
FarFuture == <<"2", "0", "9", "9", "/", "1", "2", "/", "3", "1">>
VendorStatements == "vendor statements"

\* values the columns of tblClientsLedger take in the model; of the
\* nullable columns only postingDate is NULL in some rows
TranDates == {Strftime(ToOrdinal(BaseDate) + k) : k \in {-3, 2, 3}}
PostingDates == {Strftime(ToOrdinal(BaseDate) + k) : k \in {3, 4}} \cup {NULL}
PaymentTypes == {TitleCash, TitleBankTransfer}
CashOffices == {"main", VendorStatements}
Grosses == {123450}

LedgerRows ==
    [tranDate : TranDates, postingDate : PostingDates,
     paymentType : PaymentTypes, cashOffice : CashOffices, gross : Grosses]

\* the subsets of S with at most k elements
RECURSIVE SubsetsUpTo(_, _)
SubsetsUpTo(S, k) ==
    IF k = 0 THEN {{}}
    ELSE LET P == SubsetsUpTo(S, k - 1)
         IN  P \cup {q \cup {x} : q \in P, x \in S}

Ledgers == SubsetsUpTo(LedgerRows, MaxLedgerRows)

\* ISNULL(column, '')
IsNull(v) == IF v = NULL THEN <<>> ELSE v

\* x BETWEEN lo AND hi
Between(x, lo, hi) == TextLeq(lo, x) /\ TextLeq(x, hi)

\* WHERE clause of generalQuery with its two parameters
GeneralWhere(r, p1, p2) ==
    /\ Between(IsNull(r.tranDate), p1, p2)
    /\ IsNull(r.paymentType) # TitleBankTransfer
    /\ r.cashOffice # VendorStatements

\* WHERE clause of bankTransferQuery with its two parameters
BankTransferWhere(r, p1, p2) ==
    /\ TextLess(IsNull(r.tranDate), p1)
    /\ Between(IsNull(r.postingDate), p2, FarFuture)
    /\ r.cashOffice # VendorStatements

\* the rows of a set in some fixed order
RECURSIVE SetToSeq(_)
SetToSeq(S) ==
    IF S = {} THEN <<>>
    ELSE LET r == CHOOSE x \in S : TRUE IN <<r>> \o SetToSeq(S \ {r})

\* SELECT FORMAT(gross, 'N2') AS [Gross], paymentType AS [Type]
SelectRow(r) == <<FormatN2(r.gross), r.paymentType>>

\* cursor.fetchall() over the selected ledger rows
Fetchall(S) == LET q == SetToSeq(S) IN [i \in 1..Len(q) |-> SelectRow(q[i])]

(***************************************************************************)
(* getDateStrings                                                          *)
(***************************************************************************)
\* variant: Monday is treated like any other day
LastWorkingDayNoMonday(day) == day - 1

\* lastWorkingDay, as an ordinal
LastWorkingDay(day) == IF Weekday(day) = 0 THEN day - 3 ELSE day - 1

(***************************************************************************)
(* Environment-supplied configuration.                                     *)
(***************************************************************************)
SqlVars == {"SQL_SERVER", "SQL_DATABASE", "SQL_UID", "SQL_PWD"}
SmtpVars == {"SMTP_SERVER", "SMTP_PORT", "SMTP_USERNAME", "SMTP_PASSWORD",
             "SMTP_RECIPIENT"}
EnvVars == SqlVars \cup SmtpVars

AllSet == [v \in EnvVars |-> "set"]

\* every variable set, or exactly one of them unset or set to ''
Envs == {AllSet} \cup
        {[AllSet EXCEPT ![v] = s] : v \in EnvVars, s \in {"unset", "empty"}}

(***************************************************************************)
(* State.                                                                  *)
(***************************************************************************)
VARIABLES
    env,              \* process environment after load_dotenv()
    ledger,           \* rows of tblClientsLedger
    today,            \* datetime.today(), as an ordinal
    run,              \* number of the scheduled run
    pc,               \* position of the run in main
    yesterdayString, todayString,
    conn,             \* database connection: "none", "open", "closed"
    generalRows, bankTransferRows, rows,
    idx,              \* position of the for loop of calculateTotals
    cardTotal, sageTotal, cashTotal, chequeTotal, bankTotal,
    totals,           \* the tuple calculateTotals returned
    content,          \* the CSV dumpToCSV returned
    msg,              \* the EmailMessage
    smtp,             \* SMTP session
    outbox,           \* messages the mail transport accepted
    logs,             \* lines of logs.txt
    exitCode,         \* -1 while the process runs
    raised,           \* the exception that ended the run, if any
    stages,           \* stages of main started in this run, in order
    classified,       \* match case taken for each row processed
    selected,         \* ledger rows each query selected in this run
    reports,          \* per emailed report, the ledger rows behind it
    logStart          \* length of logs.txt when the run began

vars == <<env, ledger, today, run, pc, yesterdayString, todayString, conn,
          generalRows, bankTransferRows, rows, idx, cardTotal, sageTotal,
          cashTotal, chequeTotal, bankTotal, totals, content, msg, smtp,
          outbox, logs, exitCode, raised, stages, classified, selected,
          reports, logStart>>

world == <<env, ledger, today, run, logStart>>
dateVars == <<yesterdayString, todayString>>
dbVars == <<conn, generalRows, bankTransferRows, rows, selected>>
calcVars == <<idx, cardTotal, sageTotal, cashTotal, chequeTotal, bankTotal,
              totals, classified>>
mailVars == <<content, msg, smtp, outbox, reports>>

NoException == [class |-> "none", text |-> ""]

\* local state of a run that has just been started
FreshRun ==
    /\ pc = "getDateStrings"
    /\ yesterdayString = <<>> /\ todayString = <<>>
    /\ conn = "none"
    /\ generalRows = <<>> /\ bankTransferRows = <<>> /\ rows = <<>>
    /\ idx = 0
    /\ cardTotal = 0 /\ sageTotal = 0 /\ cashTotal = 0
    /\ chequeTotal = 0 /\ bankTotal = 0
    /\ totals = <<>> /\ content = <<>>
    /\ msg = [From |-> "", To |-> "", attachment |-> <<>>]
    /\ smtp = "none"
    /\ exitCode = -1
    /\ raised = NoException
    /\ stages = <<>>
    /\ classified = <<>>
    /\ selected = [general |-> {}, bank |-> {}]

Init ==
    /\ env \in Envs
    /\ ledger \in Ledgers
    /\ today \in Days
    /\ run = 1
    /\ logs = <<>> /\ logStart = 0
    /\ outbox = <<>> /\ reports = <<>>
    /\ FreshRun

(***************************************************************************)
(* Ways a run ends.                                                        *)
(***************************************************************************)
\* logErrorAndExit(e): append the error text to logs.txt, then sys.exit(1)
LogErrorAndExit(e) ==
    /\ logs' = Append(logs, [kind |-> "error", text |-> e])
    /\ exitCode' = 1
    /\ pc' = "exited"

\* an exception no handler catches: traceback on stderr, exit status 1
UncaughtException ==
    /\ exitCode' = 1
    /\ pc' = "exited"
    /\ UNCHANGED logs

\* main returns: exit status 0
ExitNormally ==
    /\ exitCode' = 0
    /\ pc' = "exited"
    /\ UNCHANGED logs

(***************************************************************************)
(* main, step by step.                                                     *)
(***************************************************************************)
GetDateStrings ==
    /\ pc = "getDateStrings"
    /\ yesterdayString' = Strftime(LastWorkingDay(today))
    /\ todayString' = Strftime(today)
    /\ stages' = Append(stages, "date")
    /\ pc' = "getData"
    /\ UNCHANGED <<world, dbVars, calcVars, mailVars, logs, exitCode, raised>>

\* variant: only an unset variable counts as missing, '' passes
CredentialsNotNone == \A v \in SqlVars : env[v] # "unset"

\* all([server, database, uid, pwd])
AllCredentials == \A v \in SqlVars : env[v] = "set"

\* getData up to the credentials check
GetDataCredentials ==
    /\ pc = "getData"
    /\ IF AllCredentials
       THEN /\ pc' = "connect"
            /\ UNCHANGED <<logs, exitCode, raised>>
       ELSE /\ raised' = [class |-> "config",
                          text |-> "Missing one or more SQL connection environment variables"]
            /\ LogErrorAndExit(raised'.text)
    /\ UNCHANGED <<world, dateVars, dbVars, calcVars, mailVars, stages>>

\* a failure inside the try block of getData
QueryFailure(text) ==
    /\ raised' = [class |-> "query", text |-> text]
    /\ LogErrorAndExit(text)

\* pyodbc.connect(conn_str)
Connect ==
    /\ pc = "connect"
    /\ \E ok \in BOOLEAN :
        IF ok
        THEN /\ conn' = "open"
             /\ pc' = "generalQuery"
             /\ UNCHANGED <<logs, exitCode, raised>>
        ELSE /\ QueryFailure("connect failed")
             /\ UNCHANGED conn
    /\ UNCHANGED <<world, dateVars, generalRows, bankTransferRows, rows,
                   selected, calcVars, mailVars, stages>>

\* cursor.execute(generalQuery, yesterdayString, yesterdayString); fetchall()
ExecGeneralQuery ==
    /\ pc = "generalQuery"
    /\ stages' = Append(stages, "general")
    /\ \E ok \in BOOLEAN :
        IF ok
        THEN LET S == {r \in ledger :
                        GeneralWhere(r, yesterdayString, yesterdayString)}
             IN  /\ generalRows' = Fetchall(S)
                 /\ selected' = [selected EXCEPT !.general = S]
                 /\ pc' = "bankTransferQuery"
                 /\ UNCHANGED <<conn, logs, exitCode, raised>>
        ELSE /\ QueryFailure("general query failed")
             /\ conn' = "closed"
             /\ UNCHANGED <<generalRows, selected>>
    /\ UNCHANGED <<world, dateVars, bankTransferRows, rows, calcVars, mailVars>>

\* variant: only the bank transfer rows are kept
CombineRowsBankOnly(g, b) == b

\* rows = generalRows + bankTransferRows
CombineRows(g, b) == g \o b

\* cursor.execute(bankTransferQuery, todayString, todayString); fetchall();
\* rows = generalRows + bankTransferRows
ExecBankTransferQuery ==
    /\ pc = "bankTransferQuery"
    /\ stages' = Append(stages, "bank")
    /\ \E ok \in BOOLEAN :
        IF ok
        THEN LET S == {r \in ledger :
                        BankTransferWhere(r, todayString, todayString)}
             IN  /\ bankTransferRows' = Fetchall(S)
                 /\ selected' = [selected EXCEPT !.bank = S]
                 /\ rows' = CombineRows(generalRows, bankTransferRows')
                 /\ pc' = "closeConnection"
                 /\ UNCHANGED <<conn, logs, exitCode, raised>>
        ELSE /\ QueryFailure("bank transfer query failed")
             /\ conn' = "closed"
             /\ UNCHANGED <<bankTransferRows, selected, rows>>
    /\ UNCHANGED <<world, dateVars, generalRows, calcVars, mailVars>>

\* leaving the two with blocks of getData, then return rows
CloseConnection ==
    /\ pc = "closeConnection"
    /\ conn' = "closed"
    /\ \E ok \in BOOLEAN :
        IF ok
        THEN /\ pc' = "calculateTotals"
             /\ UNCHANGED <<logs, exitCode, raised>>
        ELSE QueryFailure("commit failed")
    /\ UNCHANGED <<world, dateVars, generalRows, bankTransferRows, rows,
                   selected, calcVars, mailVars, stages>>

(***************************************************************************)
(* calculateTotals                                                         *)
(***************************************************************************)
\* variant: the amount is added, so the totals are not negated
SubtractAdds(total, amount) == total + amount

\* total -= amount
Subtract(total, amount) == total - amount

\* the five running totals are set to zero and the loop begins
CalcEnter ==
    /\ pc = "calculateTotals"
    /\ idx = 0
    /\ cardTotal' = 0 /\ sageTotal' = 0 /\ cashTotal' = 0
    /\ chequeTotal' = 0 /\ bankTotal' = 0
    /\ idx' = 1
    /\ stages' = Append(stages, "aggregate")
    /\ UNCHANGED <<world, dateVars, dbVars, mailVars, totals, classified, pc,
                   logs, exitCode, raised>>

\* one iteration of the for loop
CalcRow ==
    /\ pc = "calculateTotals"
    /\ idx \in 1..Len(rows)
    /\ LET row == rows[idx]
           amount == ParseFloat(RemoveCommas(row[1]))
           type == NormalizeType(row[2])
           case == MatchType(type)
           Upd(name, total) ==
               IF case = name THEN Subtract(total, amount.pence) ELSE total
       IN  IF amount.ok
           THEN /\ cardTotal' = Upd("Card", cardTotal)
                /\ sageTotal' = Upd("SagePay", sageTotal)
                /\ cashTotal' = Upd("Cash", cashTotal)
                /\ chequeTotal' = Upd("Cheque", chequeTotal)
                /\ bankTotal' = Upd("BankTransfer", bankTotal)
                /\ classified' = Append(classified, case)
                /\ idx' = idx + 1
                /\ UNCHANGED <<pc, logs, exitCode, raised>>
           ELSE /\ raised' = [class |-> "data",
                              text |-> "could not convert string to float"]
                /\ UncaughtException
                /\ UNCHANGED <<idx, cardTotal, sageTotal, cashTotal,
                               chequeTotal, bankTotal, classified>>
    /\ UNCHANGED <<world, dateVars, dbVars, mailVars, totals, stages>>

\* return of the five rounded totals
CalcReturn ==
    /\ pc = "calculateTotals"
    /\ idx = Len(rows) + 1
    /\ totals' = <<Round2(cardTotal), Round2(sageTotal), Round2(cashTotal),
                   Round2(chequeTotal), Round2(bankTotal)>>
    /\ pc' = "dumpToCSV"
    /\ UNCHANGED <<world, dateVars, dbVars, mailVars, idx, cardTotal,
                   sageTotal, cashTotal, chequeTotal, bankTotal, classified,
                   logs, exitCode, raised, stages>>

(***************************************************************************)
(* dumpToCSV                                                               *)
(***************************************************************************)
Headings == <<"Card", "Sagepay", "Cash", "Cheque", "Bank Transfer">>

DumpToCSV ==
    /\ pc = "dumpToCSV"
    /\ content' = <<Headings, totals>>
    /\ stages' = Append(stages, "export")
    /\ pc' = "sendEmail"
    /\ UNCHANGED <<world, dateVars, dbVars, calcVars, msg, smtp, outbox,
                   reports, logs, exitCode, raised>>

(***************************************************************************)
(* sendEmail                                                               *)
(***************************************************************************)
\* os.getenv(v): a set variable's name stands for its value
Getenv(v) ==
    IF env[v] = "unset" THEN None ELSE IF env[v] = "empty" THEN "" ELSE v

\* text of an address header given a str or None
HeaderText(x) == IF x = None THEN "None" ELSE x

\* a failure inside the try block of sendEmail
DispatchFailure(text) ==
    /\ raised' = [class |-> "dispatch", text |-> text]
    /\ LogErrorAndExit(text)

\* sendEmail up to the try block: read the SMTP settings, int(SMTP_PORT),
\* build the message and attach the CSV
SendEmailConfig ==
    /\ pc = "sendEmail"
    /\ stages' = Append(stages, "send")
    /\ IF env["SMTP_PORT"] = "set"
       THEN /\ msg' = [From |-> HeaderText(Getenv("SMTP_USERNAME")),
                       To |-> HeaderText(Getenv("SMTP_RECIPIENT")),
                       attachment |-> content]
            /\ pc' = "smtpConnect"
            /\ UNCHANGED <<logs, exitCode, raised>>
       ELSE /\ raised' = [class |-> "config",
                          text |-> "int() cannot convert SMTP_PORT"]
            /\ UncaughtException
            /\ UNCHANGED msg
    /\ UNCHANGED <<world, dateVars, dbVars, calcVars, content, smtp, outbox,
                   reports>>

\* smtplib.SMTP(smtpServer, smtpPort): connects only when given a host
SmtpConnect ==
    /\ pc = "smtpConnect"
    /\ IF env["SMTP_SERVER"] = "set"
       THEN \E ok \in BOOLEAN :
               IF ok
               THEN /\ smtp' = "connected"
                    /\ pc' = "starttls"
                    /\ UNCHANGED <<logs, exitCode, raised>>
               ELSE /\ DispatchFailure("SMTP connect failed")
                    /\ UNCHANGED smtp
       ELSE /\ smtp' = "unconnected"
            /\ pc' = "starttls"
            /\ UNCHANGED <<logs, exitCode, raised>>
    /\ UNCHANGED <<world, dateVars, dbVars, calcVars, content, msg, outbox,
                   reports, stages>>

\* server.starttls()
Starttls ==
    /\ pc = "starttls"
    /\ \E ok \in BOOLEAN :
        IF ok /\ smtp = "connected"
        THEN /\ smtp' = "tls"
             /\ pc' = "login"
             /\ UNCHANGED <<logs, exitCode, raised>>
        ELSE /\ DispatchFailure(IF smtp = "connected" THEN "STARTTLS failed"
                                ELSE "please run connect() first")
             /\ smtp' = "closed"
    /\ UNCHANGED <<world, dateVars, dbVars, calcVars, content, msg, outbox,
                   reports, stages>>

\* server.login(username, password)
Login ==
    /\ pc = "login"
    /\ \E ok \in BOOLEAN :
        IF ok /\ env["SMTP_USERNAME"] = "set" /\ env["SMTP_PASSWORD"] = "set"
        THEN /\ smtp' = "authenticated"
             /\ pc' = "send_message"
             /\ UNCHANGED <<logs, exitCode, raised>>
        ELSE /\ DispatchFailure("authentication failed")
             /\ smtp' = "closed"
    /\ UNCHANGED <<world, dateVars, dbVars, calcVars, content, msg, outbox,
                   reports, stages>>

\* server.send_message(msg): an empty To header has no recipients and is
\* refused; any other message the server accepts or refuses
SendMessage ==
    /\ pc = "send_message"
    /\ \E ok \in BOOLEAN :
        IF ok /\ msg.To # ""
        THEN /\ outbox' = Append(outbox, msg)
             /\ reports' = Append(reports, selected)
             /\ pc' = "logSuccess"
             /\ UNCHANGED <<smtp, logs, exitCode, raised>>
        ELSE /\ DispatchFailure("send failed")
             /\ smtp' = "closed"
             /\ UNCHANGED <<outbox, reports>>
    /\ UNCHANGED <<world, dateVars, dbVars, calcVars, content, msg, stages>>

\* logs.write(f'Successful run: {datetime.now()}\n'), inside the try block
LogSuccess ==
    /\ pc = "logSuccess"
    /\ logs' = Append(logs, [kind |-> "success", text |-> "Successful run"])
    /\ pc' = "quit"
    /\ UNCHANGED <<world, dateVars, dbVars, calcVars, mailVars, exitCode,
                   raised, stages>>

\* leaving the with block: QUIT; a reply other than 221 raises inside the
\* try block.  Otherwise sendEmail and main return.
Quit ==
    /\ pc = "quit"
    /\ smtp' = "closed"
    /\ \E ok \in BOOLEAN :
        IF ok
        THEN /\ ExitNormally
             /\ UNCHANGED raised
        ELSE DispatchFailure("QUIT refused")
    /\ UNCHANGED <<world, dateVars, dbVars, calcVars, content, msg, outbox,
                   reports, stages>>

(***************************************************************************)
(* One run of the script.                                                  *)
(***************************************************************************)
Next ==
    \/ GetDateStrings
    \/ GetDataCredentials
    \/ Connect
    \/ ExecGeneralQuery
    \/ ExecBankTransferQuery
    \/ CloseConnection
    \/ CalcEnter
    \/ CalcRow
    \/ CalcReturn
    \/ DumpToCSV
    \/ SendEmailConfig
    \/ SmtpConnect
    \/ Starttls
    \/ Login
    \/ SendMessage
    \/ LogSuccess
    \/ Quit

Spec == Init /\ [][Next]_vars

(***************************************************************************)
(* calculateTotals on row lists drawn from bounded sets, followed by the   *)
(* rest of main: the run is taken up where getData has returned `rows`.    *)
(***************************************************************************)
\* amount texts with the pence they denote, and texts that denote none
AmountTable ==
    {[text |-> <<"5", "0", ".", "0", "0">>, pence |-> 5000],
     [text |-> <<"1", ",", "2", "3", "4", ".", "5", "0">>, pence |-> 123450],
     [text |-> <<"-", "2", "5", ".", "0", "0">>, pence |-> -2500]}
NumberTexts == {a.text : a \in AmountTable}
BadTexts == {<<"a", "b", "c">>}
AmountTexts == NumberTexts \cup BadTexts

GiftCard == <<"g", "i", "f", "t", " ", "c", "a", "r", "d">>
KnownTypes == {CreditCard, DebitCard, SagePay, Cash, Cheque, BankTransfer}
PlainTypes == KnownTypes \cup {GiftCard}

InputRows == {<<a, t>> : a \in AmountTexts, t \in PlainTypes}

\* the sequences over S of length at most n
RECURSIVE SeqsUpTo(_, _)
SeqsUpTo(S, n) ==
    IF n = 0 THEN {<<>>}
    ELSE LET P == SeqsUpTo(S, n - 1)
         IN  P \cup {Append(q, x) : q \in {q \in P : Len(q) = n - 1}, x \in S}

\* the state of a run in which getData has just returned r
AfterGetData(r) ==
    /\ env = AllSet
    /\ ledger = {}
    /\ today = ToOrdinal(BaseDate)
    /\ run = 1
    /\ logs = <<>> /\ logStart = 0
    /\ outbox = <<>> /\ reports = <<>>
    /\ pc = "calculateTotals"
    /\ yesterdayString = Strftime(LastWorkingDay(today))
    /\ todayString = Strftime(today)
    /\ conn = "closed"
    /\ generalRows = r /\ bankTransferRows = <<>> /\ rows = r
    /\ idx = 0
    /\ cardTotal = 0 /\ sageTotal = 0 /\ cashTotal = 0
    /\ chequeTotal = 0 /\ bankTotal = 0
    /\ totals = <<>> /\ content = <<>>
    /\ msg = [From |-> "", To |-> "", attachment |-> <<>>]
    /\ smtp = "none"
    /\ exitCode = -1
    /\ raised = NoException
    /\ stages = <<"date", "general", "bank">>
    /\ classified = <<>>
    /\ selected = [general |-> {}, bank |-> {}]

InitTotals == \E r \in SeqsUpTo(InputRows, MaxRows) : AfterGetData(r)

NextTotals ==
    \/ CalcEnter
    \/ CalcRow
    \/ CalcReturn
    \/ DumpToCSV
    \/ SendEmailConfig
    \/ SmtpConnect
    \/ Starttls
    \/ Login
    \/ SendMessage
    \/ LogSuccess
    \/ Quit

SpecTotals == InitTotals /\ [][NextTotals]_vars

(***************************************************************************)
(* calculateTotals on payment type labels in varied case and padding.      *)
(***************************************************************************)
Upper(s) == [i \in 1..Len(s) |-> UpperChar(s[i])]

\* first letter of every word in upper case
Title(s) ==
    [i \in 1..Len(s) |->
        IF i = 1 \/ s[i - 1] = " " THEN UpperChar(s[i]) ELSE s[i]]

CashX == <<"c", "a", "s", "h", "x">>
CoreTypes == KnownTypes \cup {GiftCard, CashX}
Pads == SeqsUpTo(Whitespace, MaxPad)

\* a label: a core in lower, upper or title case between two pads
Labels ==
    {l \o c \o r : l \in Pads, r \in Pads,
                   c \in UNION {{t, Upper(t), Title(t)} : t \in CoreTypes}}

InitLabels ==
    \E a \in Labels, b \in CoreTypes, t \in NumberTexts :
        AfterGetData(<<<<FormatN2(5000), a>>, <<t, b>>>>)

NextLabels ==
    \/ CalcEnter
    \/ CalcRow
    \/ CalcReturn

SpecLabels == InitLabels /\ [][NextLabels]_vars

(***************************************************************************)
(* Successive scheduled runs, one per weekday, over an unchanged ledger.   *)
(***************************************************************************)
NextWeekday(day) == IF Weekday(day) = 4 THEN day + 3 ELSE day + 1

\* the scheduler starts the next run once the previous one has exited
NextRun ==
    /\ pc = "exited"
    /\ run < MaxRuns
    /\ run' = run + 1
    /\ today' = NextWeekday(today)
    /\ logStart' = Len(logs)
    /\ pc' = "getDateStrings"
    /\ yesterdayString' = <<>> /\ todayString' = <<>>
    /\ conn' = "none"
    /\ generalRows' = <<>> /\ bankTransferRows' = <<>> /\ rows' = <<>>
    /\ idx' = 0
    /\ cardTotal' = 0 /\ sageTotal' = 0 /\ cashTotal' = 0
    /\ chequeTotal' = 0 /\ bankTotal' = 0
    /\ totals' = <<>> /\ content' = <<>>
    /\ msg' = [From |-> "", To |-> "", attachment |-> <<>>]
    /\ smtp' = "none"
    /\ exitCode' = -1
    /\ raised' = NoException
    /\ stages' = <<>>
    /\ classified' = <<>>
    /\ selected' = [general |-> {}, bank |-> {}]
    /\ UNCHANGED <<env, ledger, logs, outbox, reports>>

InitWeek ==
    /\ env = AllSet
    /\ ledger \in Ledgers
    /\ today \in {d \in Days : Weekday(d) <= 4}
    /\ run = 1
    /\ logs = <<>> /\ logStart = 0
    /\ outbox = <<>> /\ reports = <<>>
    /\ FreshRun

NextWeek == Next \/ NextRun

SpecWeek == InitWeek /\ [][NextWeek]_vars

(***************************************************************************)
(* Properties.                                                             *)
(***************************************************************************)
Range(f) == {f[i] : i \in DOMAIN f}

\* pence denoted by an amount text of the table
PenceOf(text) == (CHOOSE a \in AmountTable : a.text = text).pence

\* sum of the amounts of the first n rows whose match case is cat
RECURSIVE MatchedSum(_, _)
MatchedSum(cat, n) ==
    IF n = 0 THEN 0
    ELSE MatchedSum(cat, n - 1)
            + (IF classified[n] = cat THEN PenceOf(rows[n][1]) ELSE 0)

RECURSIVE SumSeq(_)
SumSeq(q) == IF q = <<>> THEN 0 ELSE Head(q) + SumSeq(Tail(q))

RunningTotals == <<cardTotal, sageTotal, cashTotal, chequeTotal, bankTotal>>

AllAmountsParse == \A i \in 1..Len(rows) : rows[i][1] \in NumberTexts

\* C1: when every amount of the row list parses, each of the five totals,
\* in the order Card, SagePay, Cash, Cheque, BankTransfer, is the negated
\* sum of the amounts of the rows classified into that category: this holds
\* of the running totals after every row and of the tuple returned, so a
\* row with an unrecognized type changes no total, the five totals sum to
\* the negated sum of all matched amounts, and no rows give five zeros.
C1_TotalsAreNegatedSums ==
    AllAmountsParse =>
        /\ Len(classified) = (IF idx = 0 THEN 0 ELSE idx - 1)
        /\ \A k \in 1..5 :
              RunningTotals[k] = -MatchedSum(Categories[k], Len(classified))
        /\ totals # <<>> =>
              /\ Len(classified) = Len(rows)
              /\ \A k \in 1..5 :
                    totals[k] = -MatchedSum(Categories[k], Len(rows))
              /\ SumSeq(totals) =
                    -SumSeq([i \in 1..Len(rows) |->
                               IF classified[i] = "ignored" THEN 0
                               ELSE PenceOf(rows[i][1])])
              /\ rows = <<>> => totals = <<0, 0, 0, 0, 0>>

\* totals were returned for two rows, one matched and one of unrecognized type
C1_Witness ==
    /\ totals # <<>>
    /\ Len(rows) = 2
    /\ classified[1] = "Cash"
    /\ classified[2] = "ignored"
    /\ totals[3] = -123450

\* the date a YYYY/MM/DD text denotes, as an ordinal
DateOfText(t) ==
    ToOrdinal([y |-> DigitsValue(SubSeq(t, 1, 4)),
               m |-> DigitsValue(SubSeq(t, 6, 7)),
               d |-> DigitsValue(SubSeq(t, 9, 10))])

IsDateText(t) ==
    /\ Len(t) = 10
    /\ t[5] = "/" /\ t[8] = "/"
    /\ \A i \in {1, 2, 3, 4, 6, 7, 9, 10} : IsDigit(t[i])

\* the first day of the window is a Monday
IsMonday(day) == (day - ToOrdinal(BaseDate)) % 7 = 0

\* C2: getDateStrings returns as last working day the date 3 calendar days
\* before today when today is a Monday and 1 calendar day before today on
\* every other day of the week, and returns today's own date second.
C2_LastWorkingDay ==
    pc # "getDateStrings" =>
        /\ IsDateText(yesterdayString) /\ IsDateText(todayString)
        /\ DateOfText(todayString) = today
        /\ DateOfText(yesterdayString) =
              (IF IsMonday(today) THEN today - 3 ELSE today - 1)

\* getDateStrings has run on Monday 26 February 2024
C2_Witness ==
    /\ pc = "getData"
    /\ IsMonday(today)
    /\ yesterdayString = <<"2", "0", "2", "4", "/", "0", "2", "/", "2", "3">>

RunLines == SubSeq(logs, logStart + 1, Len(logs))

\* C3: a run that hit a fatal error of one of the three classes (missing
\* configuration value, ledger failure, mail transport failure) has
\* appended the error text to the run log and exited with code 1; a run
\* in which no error occurred exits with code 0.
C3_FatalErrorsLoggedThenExit1 ==
    pc = "exited" =>
        /\ raised.class \in {"config", "query", "dispatch"} =>
              /\ exitCode = 1
              /\ RunLines # <<>>
              /\ RunLines[Len(RunLines)] = [kind |-> "error", text |-> raised.text]
        /\ raised.class = "none" => exitCode = 0

MissingCredential == \E v \in SqlVars : env[v] # "set"

\* C4: when one of the four database credentials is unset or empty, the
\* run never opens a database connection, executes no query and sends no
\* email, and it ends with one configuration error in the run log and
\* exit code 1.
C4_MissingCredentialStopsRun ==
    MissingCredential =>
        /\ pc \in {"getDateStrings", "getData", "exited"}
        /\ conn = "none"
        /\ "general" \notin Range(stages) /\ "bank" \notin Range(stages)
        /\ outbox = <<>>
        /\ pc = "exited" =>
              /\ exitCode = 1
              /\ raised.class = "config"
              /\ RunLines = <<[kind |-> "error", text |-> raised.text]>>

\* a run has ended on an empty SQL_PWD
C4_Witness ==
    /\ env["SQL_PWD"] = "empty"
    /\ pc = "exited"
    /\ Len(logs) = 1

FirstBad == CHOOSE i \in 1..Len(rows) :
                /\ rows[i][1] \in BadTexts
                /\ \A j \in 1..(i - 1) : rows[j][1] \notin BadTexts

\* C5: when some row handed to calculateTotals has an amount text that is
\* no number, the loop never gets past the first such row, no totals are
\* returned, no CSV is produced, no email is sent and no success line is
\* written, wherever the row stands; the run ends with exit code 1.
C5_BadAmountFailsRun ==
    ~AllAmountsParse =>
        /\ idx <= FirstBad
        /\ Len(classified) < FirstBad
        /\ totals = <<>>
        /\ content = <<>>
        /\ outbox = <<>>
        /\ \A i \in 1..Len(logs) : logs[i].kind # "success"
        /\ pc \in {"calculateTotals", "exited"}
        /\ pc = "exited" => exitCode = 1 /\ raised.class = "data"

\* the run has ended on a bad amount in second place, after a valid row
C5_Witness ==
    /\ pc = "exited"
    /\ Len(rows) = 2
    /\ rows[1][1] \in NumberTexts
    /\ rows[2][1] \in BadTexts
    /\ Len(classified) = 1

\* C6: a run that has terminated has appended exactly one line to the run
\* log.
C6_OneLogLinePerRun ==
    pc = "exited" => Len(RunLines) = 1

\* the text between the first and the last character that is no
\* whitespace, in lower case
TrimLower(l) ==
    LET keep == {i \in 1..Len(l) : l[i] \notin Whitespace}
        lo == CHOOSE i \in keep : \A j \in keep : i <= j
        hi == CHOOSE i \in keep : \A j \in keep : j <= i
    IN  IF keep = {} THEN <<>>
        ELSE [k \in 1..(hi - lo + 1) |-> LowerChar(l[lo + k - 1])]

\* C7: the match case of a row depends only on its payment type trimmed
\* and lowercased: two labels equal after that are classified alike,
\* 'credit card' and 'debit card' are both Card, and a label that is none
\* of the six known strings is ignored without an error.
C7_ClassificationByNormalizedType ==
    /\ raised = NoException
    /\ \A i \in 1..Len(classified) :
          LET t == TrimLower(rows[i][2])
          IN  /\ t \in {CreditCard, DebitCard} => classified[i] = "Card"
              /\ t = SagePay => classified[i] = "SagePay"
              /\ t = Cash => classified[i] = "Cash"
              /\ t = Cheque => classified[i] = "Cheque"
              /\ t = BankTransfer => classified[i] = "BankTransfer"
              /\ t \notin KnownTypes => classified[i] = "ignored"
              /\ \A j \in 1..Len(classified) :
                    t = TrimLower(rows[j][2]) => classified[i] = classified[j]

\* two different spellings of "debit card", one padded, were both put in Card
C7_Witness ==
    /\ Len(classified) = 2
    /\ rows[1][2] # rows[2][2]
    /\ Len(rows[1][2]) > Len(rows[2][2])
    /\ rows[2][2] = DebitCard
    /\ classified = <<"Card", "Card">>

StageOrder == <<"date", "general", "bank", "aggregate", "export", "send">>

\* sum of the gross of the rows of S with payment type t
RECURSIVE GrossOf(_, _)
GrossOf(S, t) ==
    IF S = {} THEN 0
    ELSE LET r == CHOOSE x \in S : TRUE
         IN  (IF r.paymentType = t THEN r.gross ELSE 0) + GrossOf(S \ {r}, t)

\* the totals of the rows both queries selected, taken together
SelectedTotals ==
    <<0, 0,
      -(GrossOf(selected.general, TitleCash) + GrossOf(selected.bank, TitleCash)),
      0,
      -(GrossOf(selected.general, TitleBankTransfer)
          + GrossOf(selected.bank, TitleBankTransfer))>>

\* C8: the stages of a run start in the order resolve date, general query,
\* bank-transfer query, aggregate, export, send, each only after the ones
\* before it and never after a failure; at most one email is sent, only
\* after both queries returned, carrying the totals of both result sets
\* together; after a query failure nothing is aggregated and the run is
\* over.
C8_StagesInOrder ==
    /\ Len(stages) <= Len(StageOrder)
    /\ stages = SubSeq(StageOrder, 1, Len(stages))
    /\ raised # NoException => pc = "exited"
    /\ raised.class = "query" =>
          /\ idx = 0 /\ totals = <<>> /\ content = <<>> /\ outbox = <<>>
          /\ "aggregate" \notin Range(stages)
    /\ Len(outbox) <= 1
    /\ outbox # <<>> =>
          /\ stages = StageOrder
          /\ conn = "closed"
          /\ Len(rows) = Len(generalRows) + Len(bankTransferRows)
          /\ Len(rows) = Cardinality(selected.general) + Cardinality(selected.bank)
          /\ totals = SelectedTotals
          /\ outbox[1].attachment = <<Headings, totals>>

\* an email was sent with rows from both queries in its totals
C8_Witness ==
    /\ outbox # <<>>
    /\ generalRows # <<>>
    /\ bankTransferRows # <<>>
    /\ pc = "exited" /\ exitCode = 0

\* C9: within one run the rows the general query selects and the rows the
\* bank-transfer query selects are disjoint.
C9_QueriesDisjoint ==
    selected.general \cap selected.bank = {}

\* C10: over successive weekday runs on an unchanged ledger, no ledger row
\* is behind more than one emailed report.
C10_ReportedOnce ==
    \A i, j \in 1..Len(reports) :
        i # j =>
            (reports[i].general \cup reports[i].bank)
                \cap (reports[j].general \cup reports[j].bank) = {}

====
